---------------------------- MODULE Spec2Model ----------------------------
(***************************************************************************)
(* Model of generate_pea_protein_prospects.py: the prospect collection     *)
(* loop of main, the response parser parse_csv_block and the filter        *)
(* dedupe_and_filter with its helpers normalize_name and                   *)
(* looks_like_company.                                                     *)
(*                                                                         *)
(* A Python str is a sequence of one-character strings, so that strip,     *)
(* lower, split and the regular expressions are computed character by      *)
(* character.  A record (a Python dict) is a function from key strings to  *)
(* such sequences.                                                         *)
(***************************************************************************)
EXTENDS Integers, Sequences, FiniteSets, TLC

(***************************************************************************)
(* Characters                                                              *)
(***************************************************************************)
\* The characters are the code points U+0001 to U+00FF, the ones a string
\* of this module can hold.
\*
\* the capitals: the characters str.lower() changes
UpperLetters == <<"A","B","C","D","E","F","G","H","I","J","K","L","M",
                  "N","O","P","Q","R","S","T","U","V","W","X","Y","Z",
                  "À","Á","Â","Ã","Ä","Å","Æ","Ç","È","É","Ê","Ë","Ì",
                  "Í","Î","Ï","Ð","Ñ","Ò","Ó","Ô","Õ","Ö","Ø","Ù","Ú",
                  "Û","Ü","Ý","Þ">>

\* what str.lower() makes of the capitals, position by position, followed by
\* the alphabetic characters that are neither a capital nor the lower case
\* of one
LowerLetters == <<"a","b","c","d","e","f","g","h","i","j","k","l","m",
                  "n","o","p","q","r","s","t","u","v","w","x","y","z",
                  "à","á","â","ã","ä","å","æ","ç","è","é","ê","ë","ì",
                  "í","î","ï","ð","ñ","ò","ó","ô","õ","ö","ø","ù","ú",
                  "û","ü","ý","þ","ª","µ","º","ß","ÿ">>

\* the characters str.isdigit() holds for
Digits == {"0","1","2","3","4","5","6","7","8","9",
           "²","³","¹"}

\* the numeric characters that are no digits; with the digits and the
\* letters they are what str.isalnum() holds for
Fractions == {"¼","½","¾"}

\* the characters str.strip(), str.split() and the regex class \s take as
\* whitespace: tab, line feed, vertical tab, form feed, carriage return,
\* U+001C to U+001F, space, U+0085 and U+00A0
Whitespace == {"\t", "\n", "", "\f", "\r", "", "", "", "", " ",
               "", " "}

\* the characters str.splitlines() breaks a text at: line feed, vertical
\* tab, form feed, carriage return, U+001C to U+001E and U+0085
LineBreaks == {"\n", "", "\f", "\r", "", "", "", ""}

Range(s) == {s[i] : i \in DOMAIN s}

\* the characters str.isalpha() holds for
Alphabetic == Range(UpperLetters) \cup Range(LowerLetters)

\* the characters the regex class \w matches: str.isalnum() or "_"
WordChars == Alphabetic \cup Digits \cup Fractions \cup {"_"}

\* str.lower() on the capitals
LowerOf ==
    [c \in Range(UpperLetters) |->
        LowerLetters[CHOOSE i \in DOMAIN UpperLetters : UpperLetters[i] = c]]

IsUpper(c) == c \in DOMAIN LowerOf

\* str.isalpha() on one character
IsAlphaChar(c) == c \in Alphabetic

\* the regex class \w, whose complement and the string ends make \b
IsWordChar(c) == c \in WordChars

\* str.lower() on one character
LowerChar(c) == IF IsUpper(c) THEN LowerOf[c] ELSE c

(***************************************************************************)
(* str methods                                                             *)
(***************************************************************************)
\* s.lower()
Lower(s) == IF s = <<>> THEN <<>> ELSE [i \in 1..Len(s) |-> LowerChar(s[i])]

\* s.strip(chars): the leading and the trailing characters of the set removed
StripChars(s, chars) ==
    IF \A i \in DOMAIN s : s[i] \in chars
    THEN <<>>
    ELSE LET first == CHOOSE i \in DOMAIN s :
                          /\ s[i] \notin chars
                          /\ \A j \in 1..(i-1) : s[j] \in chars
             last  == CHOOSE i \in DOMAIN s :
                          /\ s[i] \notin chars
                          /\ \A j \in (i+1)..Len(s) : s[j] \in chars
         IN  SubSeq(s, first, last)

\* s.strip()
Strip(s) == StripChars(s, Whitespace)

\* s.strip('"')
StripQuotes(s) == StripChars(s, {"\""})

\* s.isalpha(): non-empty and every character alphabetic
IsAlpha(s) == s # <<>> /\ \A i \in DOMAIN s : IsAlphaChar(s[i])

\* the pieces of s between the positions of the set cuts, in order, empty
\* pieces included (what re.split returns for one-character matches)
PiecesAt(s, cuts) ==
    LET n      == Cardinality(cuts)
        cut(j) == IF j = 0 THEN 0
                  ELSE IF j = n + 1 THEN Len(s) + 1
                  ELSE CHOOSE p \in cuts : Cardinality({q \in cuts : q < p}) = j - 1
    IN  [j \in 1..(n+1) |-> SubSeq(s, cut(j-1) + 1, cut(j) - 1)]

\* s.split(): the maximal runs of non-whitespace characters
SplitWS(s) ==
    SelectSeq(PiecesAt(s, {i \in DOMAIN s : s[i] \in Whitespace}),
              LAMBDA p : p # <<>>)

\* text.splitlines(): the lines between line breaks ("\r\n" is one break),
\* without a last empty line
SplitLines(text) ==
    LET breaks == {i \in DOMAIN text : text[i] \in LineBreaks}
        \* the "\r" of a "\r\n" pair does not end a line of its own
        ends   == {i \in breaks :
                      ~(text[i] = "\r" /\ i < Len(text) /\ text[i+1] = "\n")}
        raw    == PiecesAt(text, ends)
        lines  == [j \in DOMAIN raw |->
                      IF raw[j] # <<>> /\ raw[j][Len(raw[j])] = "\r"
                         /\ j < Len(raw)
                      THEN SubSeq(raw[j], 1, Len(raw[j]) - 1)
                      ELSE raw[j]]
    IN  IF text = <<>> THEN <<>>
        ELSE IF lines[Len(lines)] = <<>> THEN SubSeq(lines, 1, Len(lines) - 1)
        ELSE lines

(***************************************************************************)
(* normalize_name                                                          *)
(***************************************************************************)
\* re.sub(r"\s+", " ", s): every maximal whitespace run becomes one space
CollapseWhitespace(s) ==
    LET keep == {i \in DOMAIN s :
                    s[i] \notin Whitespace \/ i = 1 \/ s[i-1] \notin Whitespace}
        at(j) == CHOOSE p \in keep : Cardinality({q \in keep : q < p}) = j - 1
    IN  [j \in 1..Cardinality(keep) |->
            IF s[at(j)] \in Whitespace THEN " " ELSE s[at(j)]]

\* (the set brackets have name.strip().lower() evaluated once)
normalize_name(name) ==
    CHOOSE key \in {CollapseWhitespace(s) : s \in {Lower(Strip(name))}} : TRUE


(***************************************************************************)
(* looks_like_company                                                      *)
(***************************************************************************)
\* The regular expressions of bad_patterns.  Each is a literal, lit, that
\* may be anchored at the start of the string (^) and may have to be
\* followed by the end of the string ($) or by a word boundary (\b).
bad_patterns == <<
    [start |-> TRUE,  lit |-> <<"s","i","e","h","e">>,                 end |-> "any"],
    [start |-> TRUE,  lit |-> <<"n","/","a">>,                         end |-> "$"],
    [start |-> TRUE,  lit |-> <<"k","e","i","n","e">>,                 end |-> "any"],
    [start |-> TRUE,  lit |-> <<"u","n","b","e","k","a","n","n","t">>, end |-> "any"],
    [start |-> TRUE,  lit |-> <<"s","a","m","p","l","e">>,             end |-> "any"],
    [start |-> FALSE, lit |-> <<"h","t","t","p">>,                     end |-> "any"],
    [start |-> FALSE, lit |-> <<".","c","o","m">>,                     end |-> "\\b"],
    [start |-> FALSE, lit |-> <<".","d","e">>,                         end |-> "\\b"] >>

\* the literal lit stands in s at position i, letter case ignored (re.I)
LiteralAt(s, i, lit) ==
    /\ i >= 1
    /\ i + Len(lit) - 1 <= Len(s)
    /\ \A k \in DOMAIN lit : LowerChar(s[i + k - 1]) = LowerChar(lit[k])

\* what must follow a match that ends at position e of s
EndMatches(s, e, end) ==
    CASE end = "any" -> TRUE
      \* $ matches at the end and before a newline that ends the string
      [] end = "$"   -> e = Len(s) \/ (e = Len(s) - 1 /\ s[Len(s)] = "\n")
      \* \b after the word character that ends the literal
      [] end = "\\b" -> e = Len(s) \/ ~IsWordChar(s[e + 1])

\* re.search(bp, s, flags=re.I) finds a match
re_search(bp, s) ==
    \E i \in 1..Len(s) :
        /\ bp.start => i = 1
        /\ LiteralAt(s, i, bp.lit)
        /\ EndMatches(s, i + Len(bp.lit) - 1, bp.end)

\* looks_like_company without the rule for short generic tokens
looks_like_company_NoShortRule(name) ==
    IF \E b \in DOMAIN bad_patterns : re_search(bad_patterns[b], name)
    THEN FALSE
    ELSE TRUE

looks_like_company(name) ==
    IF \E b \in DOMAIN bad_patterns : re_search(bad_patterns[b], name)
    THEN FALSE
    ELSE IF Len(SplitWS(name)) = 1 /\ IsAlpha(name) /\ Len(name) <= 3
    THEN FALSE
    ELSE TRUE

(***************************************************************************)
(* dedupe_and_filter                                                       *)
(***************************************************************************)
\* r.get(key, "")
Get(r, key) == IF key \in DOMAIN r THEN r[key] ELSE <<>>

\* ExamineCandidate without seen.add(key)
ExamineCandidate_NoSeenAdd(st, r, key) ==
    IF key = <<>> \/ key \in st.seen
    THEN st
    ELSE IF looks_like_company(Get(r, "Company"))
    THEN [seen |-> st.seen, clean |-> Append(st.clean, r)]
    ELSE st

\* ExamineCandidate without the test "key in seen"
ExamineCandidate_NoSeenCheck(st, r, key) ==
    IF key = <<>>
    THEN st
    ELSE IF looks_like_company(Get(r, "Company"))
    THEN [seen |-> st.seen \cup {key}, clean |-> Append(st.clean, r)]
    ELSE st

\* The body of "for r in rows" once key is computed: st holds the set seen
\* and the list clean as they are before the candidate r is examined.
ExamineCandidate(st, r, key) ==
    IF key = <<>> \/ key \in st.seen
    THEN st
    ELSE IF looks_like_company(Get(r, "Company"))
    THEN [seen |-> st.seen \cup {key}, clean |-> Append(st.clean, r)]
    ELSE st

\* One pass of the body of "for r in rows".
DedupeStep(st, r) ==
    CHOOSE next \in {ExamineCandidate(v[1], r, v[2]) :
                        v \in {<<st, normalize_name(Get(r, "Company"))>>}} : TRUE

RECURSIVE DedupeLoop(_, _, _)
DedupeLoop(rows, i, st) ==
    IF i > Len(rows) THEN st
    ELSE DedupeLoop(rows, i + 1, DedupeStep(st, rows[i]))

\* The call dedupe_and_filter(rows, seen): .clean is the list it returns,
\* .seen the set seen as the call leaves it.
dedupe_and_filter(rows, seen) ==
    DedupeLoop(rows, 1, [seen |-> seen, clean |-> <<>>])

(***************************************************************************)
(* parse_csv_block                                                         *)
(***************************************************************************)
fieldnames == <<"Company", "Segment", "Country/Region", "WhyRelevant",
                "Website", "Priority">>

\* the number of double quotes in s after position i
QuotesAfter(s, i) == Cardinality({j \in (i+1)..Len(s) : s[j] = "\""})

\* re.split(delim + r'(?=(?:[^"]*"[^"]*")*[^"]*$)', line): the line is cut
\* at every delimiter that an even number of double quotes follows
QuoteAwareSplit(line, delim) ==
    PiecesAt(line, {i \in DOMAIN line :
                        line[i] = delim /\ QuotesAfter(line, i) % 2 = 0})

\* [p.strip() for p in re.split(...)]
SplitParts(line, delim) ==
    LET pieces == QuoteAwareSplit(line, delim)
    IN  [j \in DOMAIN pieces |-> Strip(pieces[j])]

\* the dict built from parts
RowOf(parts) ==
    [k \in Range(fieldnames) |->
        LET n == CHOOSE i \in DOMAIN fieldnames : fieldnames[i] = k
        IN  IF Len(parts) >= n THEN StripQuotes(parts[n]) ELSE <<>>]

\* ParseLine without the semicolon fallback
ParseLine_NoFallback(line, expected_cols) ==
    IF Strip(line) = <<>> THEN <<>>
    ELSE LET parts == SplitParts(line, ",")
         IN  IF Len(parts) >= expected_cols THEN <<RowOf(parts)>> ELSE <<>>

\* One pass of the body of "for line in text.splitlines()": the rows the
\* line appends, none or one.
ParseLine(line, expected_cols) ==
    IF Strip(line) = <<>> THEN <<>>
    ELSE LET byComma == SplitParts(line, ",")
             parts   == IF Len(byComma) < expected_cols
                        THEN SplitParts(line, ";")
                        ELSE byComma
         IN  IF Len(parts) >= expected_cols THEN <<RowOf(parts)>> ELSE <<>>

RECURSIVE ParseLines(_, _, _)
ParseLines(lines, i, expected_cols) ==
    IF i > Len(lines) THEN <<>>
    ELSE ParseLine(lines[i], expected_cols)
             \o ParseLines(lines, i + 1, expected_cols)

parse_csv_block(text, expected_cols) ==
    ParseLines(SplitLines(text), 1, expected_cols)


(***************************************************************************)
(* Configuration and reference data                                        *)
(***************************************************************************)
\* the titles of SEED_SEGMENTS, in order (a-umlaut written ae); the
\* descriptions only enter the prompt
SEED_SEGMENTS == <<
    "Hersteller pflanzlicher Fleischalternativen",
    "Protein- & Functional-Food-Hersteller",
    "Hersteller von Molkereialternativen",
    "Hersteller von Snacks und Backwaren",
    "Tiernahrungshersteller (Pet Food)",
    "Lohnhersteller & Co-Packer Food/Drinks",
    "Hersteller von Fertiggerichten & Convenience",
    "B2B-Zutatenhaendler / Distributoren",
    "Hersteller medizinischer / seniorengerechter Ernaehrung",
    "Marken mit Verpackungsbedarf (Cross-Sell Packaging)" >>

\* the default of parse_csv_block's parameter expected_cols
expected_cols_default == 6

\* time.sleep(2.0) after an empty batch and time.sleep(0.8) after an
\* accepted one, in tenths of a second
EMPTY_BATCH_PAUSE == 20

PACING_PAUSE == 8

\* TARGET_COUNT and MAX_CALLS are configuration; the model runs the loop
\* for a small and a large value of each.
SmallTarget == 3

MaxTarget == 10

SmallCalls == 2

MaxCalls == 11

TargetChoices == {SmallTarget, MaxTarget}

CallCapChoices == {SmallCalls, MaxCalls}

(***************************************************************************)
(* The external call: the texts the text-generation service may return     *)
(***************************************************************************)
RECURSIVE JoinFrom(_, _)
JoinFrom(lines, i) ==
    IF i > Len(lines) THEN <<>>
    ELSE IF i = Len(lines) THEN lines[i]
    ELSE lines[i] \o <<"\n">> \o JoinFrom(lines, i + 1)

\* "\n".join(lines)
Join(lines) == JoinFrom(lines, 1)

\* five well-formed rows, companies C0 .. C4
\*     C0,s,DE,w,,A
\*     C1,s,DE,w,,A
\*     C2,s,DE,w,,A
\*     C3,s,DE,w,,A
\*     C4,s,DE,w,,A
TextBatchA == Join(<<
    <<"C","0",",","s",",","D","E",",","w",",",",","A">>,
    <<"C","1",",","s",",","D","E",",","w",",",",","A">>,
    <<"C","2",",","s",",","D","E",",","w",",",",","A">>,
    <<"C","3",",","s",",","D","E",",","w",",",",","A">>,
    <<"C","4",",","s",",","D","E",",","w",",",",","A">> >>)

\* five well-formed rows, companies C5 .. C9
\*     C5,s,DE,w,,B
\*     C6,s,DE,w,,B
\*     C7,s,DE,w,,B
\*     C8,s,DE,w,,B
\*     C9,s,DE,w,,B
TextBatchB == Join(<<
    <<"C","5",",","s",",","D","E",",","w",",",",","B">>,
    <<"C","6",",","s",",","D","E",",","w",",",",","B">>,
    <<"C","7",",","s",",","D","E",",","w",",",",","B">>,
    <<"C","8",",","s",",","D","E",",","w",",",",","B">>,
    <<"C","9",",","s",",","D","E",",","w",",",",","B">> >>)

\* one company three times, placeholders, and a short token twice
\*     Acme GmbH,s,DE,w,,A
\*     Acme GmbH,s,AT,w,,B
\*     "  Acme   GmbH ",s,DE,w,,A
\*     N/A,s,DE,w,,A
\*     abc,s,DE,w,,A
\*     " abc",s,DE,w,,A
TextDuplicates == Join(<<
    <<"A","c","m","e"," ","G","m","b","H",",","s",",","D","E",",","w",",",",","A">>,
    <<"A","c","m","e"," ","G","m","b","H",",","s",",","A","T",",","w",",",",","B">>,
    <<"\""," "," ","A","c","m","e"," "," "," ","G","m","b","H"," ","\"",",","s",",","D","E",",","w",",",",","A">>,
    <<"N","/","A",",","s",",","D","E",",","w",",",",","A">>,
    <<"a","b","c",",","s",",","D","E",",","w",",",",","A">>,
    <<"\""," ","a","b","c","\"",",","s",",","D","E",",","w",",",",","A">> >>)

\* semicolon rows, a blank line, a quoted comma, a seventh field, a short row
\*     Keine Angabe;s;DE;w;;A
\*     
\*     sample-co.com,s,DE,w,,A
\*     Beta AG;s;DE;"w,x";;A;more
\*     too,few,fields
TextSemicolon == Join(<<
    <<"K","e","i","n","e"," ","A","n","g","a","b","e",";","s",";","D","E",";","w",";",";","A">>,
    <<>>,
    <<"s","a","m","p","l","e","-","c","o",".","c","o","m",",","s",",","D","E",",","w",",",",","A">>,
    <<"B","e","t","a"," ","A","G",";","s",";","D","E",";","\"","w",",","x","\"",";",";","A",";","m","o","r","e">>,
    <<"t","o","o",",","f","e","w",",","f","i","e","l","d","s">> >>)

\* well-formed rows none of which names a company
\*     N/A,s,DE,w,,A
\*     abc,s,DE,w,,C
\*     Öl<U+00A0>,s,DE,w,,B
TextPlaceholders == Join(<<
    <<"N","/","A",",","s",",","D","E",",","w",",",",","A">>,
    <<"a","b","c",",","s",",","D","E",",","w",",",",","C">>,
    <<"Ö","l"," ",",","s",",","D","E",",","w",",",",","B">> >>)

\* text without a single row of six fields
\*     Sorry, no data.
TextProse == Join(<<
    <<"S","o","r","r","y",","," ","n","o"," ","d","a","t","a",".">> >>)

\* resp.output_text of a call that returns; <<>> is the empty text
Responses == { <<>>, TextProse, TextBatchA, TextBatchB, TextDuplicates,
               TextSemicolon, TextPlaceholders }

(***************************************************************************)
(* State                                                                   *)
(***************************************************************************)
VARIABLES
    TARGET_COUNT,  \* configuration: the number of prospects wanted
    MAX_CALLS,     \* configuration: the cap on external calls
    seen,          \* main: the set of normalized names accepted so far
    results,       \* main: the list of accepted records
    call_count,    \* main: external calls that have returned
    seg_index,     \* main: segments selected so far
    seg_title,     \* main: the title of the segment of this iteration
    text,          \* generate_batch: the text of the last response
    batch,         \* main: the rows parsed from the last response
    log,           \* the message this iteration printed: "", WARN, INFO, OK
    slept,         \* the pause this iteration made, in tenths of a second
    output,        \* the CSV file
    pc,            \* the position of main
    untrimmed,     \* history: results as the loop left it
    segs_used,     \* history: the segment title of every call, in order
    stub,          \* history: what the responses so far have in common
    failed,        \* history: an external call has raised
    filt,          \* a call of dedupe_and_filter on its own
    prs            \* a call of parse_csv_block on its own

loopvars == <<TARGET_COUNT, MAX_CALLS, seen, results, call_count, seg_index,
              seg_title, text, batch, log, slept, output, pc, untrimmed,
              segs_used, stub, failed>>

vars == <<TARGET_COUNT, MAX_CALLS, seen, results, call_count, seg_index,
          seg_title, text, batch, log, slept, output, pc, untrimmed,
          segs_used, stub, failed, filt, prs>>

\* no call of dedupe_and_filter, of parse_csv_block, on its own
FiltIdle == [rows |-> <<>>, seen0 |-> {}, i |-> 0, seen |-> {},
             clean |-> <<>>, acc |-> <<>>, seen_at |-> <<>>]

PrsIdle == [text |-> <<>>, cols |-> 0, lines |-> <<>>, i |-> 0,
            rows |-> <<>>, made |-> <<>>]

\* the file before main writes it
NotWritten == [written |-> FALSE, header |-> <<>>, rows |-> <<>>]

(***************************************************************************)
(* main                                                                    *)
(***************************************************************************)
\* the state of main at the first test of the while condition (at = "loop"),
\* or with main not running (at = "idle")
MainStart(target, cap, at) ==
    /\ TARGET_COUNT = target
    /\ MAX_CALLS = cap
    /\ seen = {}
    /\ results = <<>>
    /\ call_count = 0
    /\ seg_index = 0
    /\ seg_title = ""
    /\ text = <<>>
    /\ batch = <<>>
    /\ log = ""
    /\ slept = 0
    /\ output = NotWritten
    /\ pc = at
    /\ untrimmed = <<>>
    /\ segs_used = <<>>
    /\ stub = "unused"
    /\ failed = FALSE

Init ==
    /\ \E target \in TargetChoices, cap \in CallCapChoices :
           MainStart(target, cap, "loop")
    /\ filt = FiltIdle
    /\ prs = PrsIdle

\* LoopCondition with the call counter compared by <=
LoopCondition_OffByOne(n, calls, target, cap) == n < target /\ calls <= cap

\* the while condition
LoopCondition(n, calls, target, cap) == n < target /\ calls < cap

\* SegmentFor without the rotation
SegmentFor_First(index) == SEED_SEGMENTS[1]

\* SEED_SEGMENTS[seg_index % len(SEED_SEGMENTS)], titles only
SegmentFor(index) == SEED_SEGMENTS[(index % Len(SEED_SEGMENTS)) + 1]

\* Prefix without the cut
Prefix_NoTrim(xs, n) == xs

\* xs[:n]
Prefix(xs, n) == IF Len(xs) <= n THEN xs ELSE SubSeq(xs, 1, n)

\* what generate_batch returns for the text of the response
generate_batch(t) ==
    IF t = <<>> THEN <<>> ELSE parse_csv_block(t, expected_cols_default)

\* generate_batch for every text the external call may return
BatchOf == [t \in Responses |-> generate_batch(t)]

\* the number of lines of every text the external call may return
LinesOf == [t \in Responses |-> Len(SplitLines(t))]

\* the response consists of five rows of six fields whose names are
\* companies, differ from each other and were never seen before
FreshFive(t, seenNow) ==
    LET rows == BatchOf[t]
        keys == {normalize_name(rows[i]["Company"]) : i \in DOMAIN rows}
    IN  /\ LinesOf[t] = 5
        /\ Len(rows) = 5
        /\ Cardinality(keys) = 5
        /\ keys \cap seenNow = {}
        /\ <<>> \notin keys
        /\ \A i \in DOMAIN rows : looks_like_company(rows[i]["Company"])

\* the history of the responses, one more response taken in
StubAfter(t, seenNow) ==
    LET kind == IF t = <<>> THEN "empty"
                ELSE IF FreshFive(t, seenNow) THEN "fresh5"
                ELSE "mixed"
    IN  IF stub \in {"unused", kind} THEN kind ELSE "mixed"

\* The loop condition holds: the segment of the iteration is selected.
Iterate ==
    /\ pc = "loop"
    /\ LoopCondition(Len(results), call_count, TARGET_COUNT, MAX_CALLS)
    /\ seg_title' = SegmentFor(seg_index)
    /\ seg_index' = seg_index + 1
    /\ segs_used' = Append(segs_used, seg_title')
    /\ log' = ""
    /\ slept' = 0
    /\ pc' = "call"
    /\ UNCHANGED <<TARGET_COUNT, MAX_CALLS, seen, results, call_count, text,
                   batch, output, untrimmed, stub, failed, filt, prs>>

\* The loop condition fails.
ExitLoop ==
    /\ pc = "loop"
    /\ ~LoopCondition(Len(results), call_count, TARGET_COUNT, MAX_CALLS)
    /\ pc' = "trim"
    /\ UNCHANGED <<TARGET_COUNT, MAX_CALLS, seen, results, call_count,
                   seg_index, seg_title, text, batch, log, slept, output,
                   untrimmed, segs_used, stub, failed, filt, prs>>

\* generate_batch returns: the external call answered with some text.
CallReturns ==
    /\ pc = "call"
    /\ \E t \in Responses :
           /\ text' = t
           /\ batch' = BatchOf[t]
           /\ stub' = StubAfter(t, seen)
    /\ call_count' = call_count + 1
    /\ pc' = "dispatch"
    /\ UNCHANGED <<TARGET_COUNT, MAX_CALLS, seen, results, seg_index,
                   seg_title, log, slept, output, untrimmed, segs_used,
                   failed, filt, prs>>

\* CallFails with the failure caught and what was collected saved
CallFails_SavePartial ==
    /\ pc = "call"
    /\ failed' = TRUE
    /\ pc' = "trim"
    /\ UNCHANGED <<TARGET_COUNT, MAX_CALLS, seen, results, call_count,
                   seg_index, seg_title, text, batch, log, slept, output,
                   untrimmed, segs_used, stub, filt, prs>>

\* client.responses.create raises: nothing in generate_batch or main
\* catches it.
CallFails ==
    /\ pc = "call"
    /\ failed' = TRUE
    /\ pc' = "fatal"
    /\ UNCHANGED <<TARGET_COUNT, MAX_CALLS, seen, results, call_count,
                   seg_index, seg_title, text, batch, log, slept, output,
                   untrimmed, segs_used, stub, filt, prs>>

\* EmptyBatch with the retry on the same segment
EmptyBatch_SameSegment ==
    /\ pc = "dispatch"
    /\ batch = <<>>
    /\ log' = "WARN"
    /\ slept' = EMPTY_BATCH_PAUSE
    /\ seg_index' = seg_index - 1
    /\ pc' = "loop"
    /\ UNCHANGED <<TARGET_COUNT, MAX_CALLS, seen, results, call_count,
                   seg_title, text, batch, output, untrimmed, segs_used,
                   stub, failed, filt, prs>>

\* "if not batch": the warning, the pause, continue.
EmptyBatch ==
    /\ pc = "dispatch"
    /\ batch = <<>>
    /\ log' = "WARN"
    /\ slept' = EMPTY_BATCH_PAUSE
    /\ pc' = "loop"
    /\ UNCHANGED <<TARGET_COUNT, MAX_CALLS, seen, results, call_count,
                   seg_index, seg_title, text, batch, output, untrimmed,
                   segs_used, stub, failed, filt, prs>>

\* NoNewCompanies taking the pause of the empty batch
NoNewCompanies_Pause ==
    /\ pc = "dispatch"
    /\ batch # <<>>
    /\ LET d == dedupe_and_filter(batch, seen)
       IN  /\ d.clean = <<>>
           /\ seen' = d.seen
    /\ log' = "INFO"
    /\ slept' = EMPTY_BATCH_PAUSE
    /\ pc' = "loop"
    /\ UNCHANGED <<TARGET_COUNT, MAX_CALLS, results, call_count, seg_index,
                   seg_title, text, batch, output, untrimmed, segs_used,
                   stub, failed, filt, prs>>

\* "if not batch_clean": the information, continue.
NoNewCompanies ==
    /\ pc = "dispatch"
    /\ batch # <<>>
    /\ LET d == dedupe_and_filter(batch, seen)
       IN  /\ d.clean = <<>>
           /\ seen' = d.seen
    /\ log' = "INFO"
    /\ pc' = "loop"
    /\ UNCHANGED <<TARGET_COUNT, MAX_CALLS, results, call_count, seg_index,
                   seg_title, text, batch, slept, output, untrimmed,
                   segs_used, stub, failed, filt, prs>>

\* results.extend(batch_clean), the progress message, the pacing pause.
ExtendResults ==
    /\ pc = "dispatch"
    /\ batch # <<>>
    /\ LET d == dedupe_and_filter(batch, seen)
       IN  /\ d.clean # <<>>
           /\ seen' = d.seen
           /\ results' = results \o d.clean
    /\ log' = "OK"
    /\ slept' = PACING_PAUSE
    /\ pc' = "loop"
    /\ UNCHANGED <<TARGET_COUNT, MAX_CALLS, call_count, seg_index, seg_title,
                   text, batch, output, untrimmed, segs_used, stub, failed,
                   filt, prs>>

\* results = results[:TARGET_COUNT]
Trim ==
    /\ pc = "trim"
    /\ untrimmed' = results
    /\ results' = Prefix(results, TARGET_COUNT)
    /\ pc' = "save"
    /\ UNCHANGED <<TARGET_COUNT, MAX_CALLS, seen, call_count, seg_index,
                   seg_title, text, batch, log, slept, output, segs_used,
                   stub, failed, filt, prs>>

\* The header and the rows are written to OUTPUT_CSV.
SaveCSV ==
    /\ pc = "save"
    /\ output' = [written |-> TRUE, header |-> fieldnames, rows |-> results]
    /\ pc' = "done"
    /\ UNCHANGED <<TARGET_COUNT, MAX_CALLS, seen, results, call_count,
                   seg_index, seg_title, text, batch, log, slept, untrimmed,
                   segs_used, stub, failed, filt, prs>>

Next ==
    \/ Iterate
    \/ ExitLoop
    \/ CallReturns
    \/ CallFails
    \/ EmptyBatch
    \/ NoNewCompanies
    \/ ExtendResults
    \/ Trim
    \/ SaveCSV

Spec == Init /\ [][Next]_vars

\* main runs on while it can take a step
LiveSpec == Init /\ [][Next]_vars /\ WF_vars(Next)

(***************************************************************************)
(* Properties of the collection loop                                       *)
(***************************************************************************)
\* the normalized names of a list of records differ pairwise
UniqueKeys(rs) ==
    \A i, j \in DOMAIN rs :
        i # j => normalize_name(rs[i]["Company"]) # normalize_name(rs[j]["Company"])

\* main has left the while loop
LoopLeft == pc \in {"trim", "save", "done"}

\* C1: in every state of main, before and after the trim and in the file,
\* no two records of the result list have names with the same normalized key.
C1_UniqueKeys == UniqueKeys(results) /\ UniqueKeys(output.rows)

\* a batch that names one company three times has been accepted
C1_Witness ==
    /\ pc = "loop"
    /\ log = "OK"
    /\ text = TextDuplicates
    /\ Len(results) >= 2

\* C2: the list handed to the writer has at most TARGET_COUNT records: the
\* first TARGET_COUNT of the accumulated list when that reached or overshot
\* the target, the accumulated list itself otherwise.
C2_TrimmedOutput ==
    /\ pc \in {"save", "done"} =>
           /\ Len(results) <= TARGET_COUNT
           /\ results = IF Len(untrimmed) >= TARGET_COUNT
                        THEN SubSeq(untrimmed, 1, TARGET_COUNT)
                        ELSE untrimmed
    /\ output.written => output.rows = results

\* the final batch overshot the target and the file is written
C2_Witness ==
    /\ output.written
    /\ Len(untrimmed) > TARGET_COUNT
    /\ Len(output.rows) = TARGET_COUNT

\* the safety part of C3
C3_Bounds ==
    /\ call_count <= MAX_CALLS
    /\ pc = "call" => Len(results) < TARGET_COUNT
    /\ LoopLeft => (Len(results) >= TARGET_COUNT \/ call_count = MAX_CALLS)
    /\ (LoopLeft /\ stub = "empty") =>
           (call_count = MAX_CALLS /\ results = <<>> /\ ~failed)

\* C3: while the external call returns, the loop terminates; the call
\* counter never exceeds MAX_CALLS, no call is issued once the target is
\* reached, the loop is left with the target reached or the cap used up, and
\* with empty text on every call it is left after MAX_CALLS calls with no
\* result and no failure.
C3_Terminates == []C3_Bounds /\ <>(pc \in {"done", "fatal"})

\* every call returned empty text and main ended at the larger cap
C3_Witness ==
    /\ pc = "done"
    /\ stub = "empty"
    /\ call_count = MaxCalls
    /\ output.rows = <<>>

\* C4: with a target of 10 and five fresh well-formed rows from every call,
\* the loop makes exactly two calls, on the first and the second segment,
\* and ends with exactly 10 records.
C4_EndToEnd ==
    (TARGET_COUNT = 10 /\ MAX_CALLS >= 2 /\ stub = "fresh5") =>
        /\ call_count <= 2
        /\ (pc = "call" => call_count < 2)
        /\ LoopLeft =>
               /\ call_count = 2
               /\ Len(results) = 10
               /\ segs_used = <<SEED_SEGMENTS[1], SEED_SEGMENTS[2]>>
               /\ SEED_SEGMENTS[1] # SEED_SEGMENTS[2]
        /\ output.written => Len(output.rows) = 10

\* the scenario has run to its end
C4_Witness ==
    /\ pc = "done"
    /\ TARGET_COUNT = 10
    /\ stub = "fresh5"
    /\ Len(output.rows) = 10

\* C8: once the external call has failed, main is in its fatal state, takes
\* no further step (no iteration, no call, no write) and the file is not
\* written.
C8_FailureIsFatal ==
    failed => (pc = "fatal" /\ output = NotWritten /\ ~ENABLED Next)

\* the call fails with records already collected
C8_Witness == failed /\ results # <<>>

\* C9 as claimed: an iteration whose call returned non-empty text and that
\* accepts no candidate prints the information, does not pause and leaves
\* seen unchanged.
C9_NonEmptyTextInforms ==
    [][(pc = "dispatch" /\ text # <<>> /\ results' = results) =>
           (log' = "INFO" /\ slept' = 0 /\ seen' = seen /\ pc' = "loop")]_vars

\* C9 amended: an iteration whose response parsed to at least one row and
\* that accepts no candidate prints the information, does not pause, leaves
\* results and seen unchanged and goes on; the warning and the pause are
\* taken exactly when the response parsed to no row, which is the case for
\* empty text and for text without a line of six fields.
C9_ParsedRowsInform ==
    [][pc = "dispatch" =>
          /\ (batch # <<>> /\ results' = results) =>
                 (log' = "INFO" /\ slept' = 0 /\ seen' = seen /\ pc' = "loop")
          /\ (log' = "WARN" \/ slept' = EMPTY_BATCH_PAUSE) <=>
                 (text = <<>> \/ BatchOf[text] = <<>>)
      ]_vars

\* a batch of known companies only has been answered with the information
C9_Witness ==
    /\ pc = "loop"
    /\ log = "INFO"
    /\ text = TextBatchA
    /\ slept = 0

\* C10: at every loop head the segment index equals the call counter, and
\* the k-th call uses segment (k-1) mod len(SEED_SEGMENTS), whatever the
\* outcome of the calls before it.
C10_SegmentRotation ==
    /\ pc = "loop" => seg_index = call_count
    /\ Len(segs_used) = seg_index
    /\ \A k \in DOMAIN segs_used :
           segs_used[k] = SEED_SEGMENTS[((k - 1) % Len(SEED_SEGMENTS)) + 1]
    /\ pc = "call" =>
           /\ Len(segs_used) = call_count + 1
           /\ seg_title = segs_used[call_count + 1]

\* the call after an empty batch, with the rotation wrapped around
C10_Witness ==
    /\ pc = "call"
    /\ log = ""
    /\ batch = <<>>
    /\ call_count = Len(SEED_SEGMENTS)
    /\ seg_title = SEED_SEGMENTS[1]

(***************************************************************************)
(* dedupe_and_filter on its own: the candidates are examined one by one    *)
(***************************************************************************)
\* rows has at most MaxRows candidates that share keys with each other, or
\* at most MaxRowsAny candidates of any kind
MaxRows == 3

MaxRowsAny == 2

\* 'Acme GmbH'
NameAcme == <<"A","c","m","e"," ","G","m","b","H">>

\* '  Acme   GmbH '
NameAcmeSpaced == <<" "," ","A","c","m","e"," "," "," ","G","m","b","H"," ">>

\* 'N/A'
NameNA == <<"N","/","A">>

\* ' N/A'
NameNAPadded == <<" ","N","/","A">>

\* 'Keine Angabe'
NameKeine == <<"K","e","i","n","e"," ","A","n","g","a","b","e">>

\* 'sample-co.com'
NameSample == <<"s","a","m","p","l","e","-","c","o",".","c","o","m">>

\* 'abc'
NameAbc == <<"a","b","c">>

\* ' abc'
NameAbcPadded == <<" ","a","b","c">>

\* ''
NameEmpty == <<>>

\* 'Beta AG'
NameBeta == <<"B","e","t","a"," ","A","G">>

\* 'Foo.de'
NameDomain == <<"F","o","o",".","d","e">>

\* 'see http'
NameUrl == <<"s","e","e"," ","h","t","t","p">>

\* 'Siehe oben'
NameSiehe == <<"S","i","e","h","e"," ","o","b","e","n">>

\* 'UNBEKANNT'
NameUnbekannt == <<"U","N","B","E","K","A","N","N","T">>

\* 'Öl'
NameOel == <<"Ö","l">>

\* 'MÜLLER GmbH'
NameMuellerCaps == <<"M","Ü","L","L","E","R"," ","G","m","b","H">>

\* 'Müller GmbH'
NameMueller == <<"M","ü","l","l","e","r"," ","G","m","b","H">>

\* 'A<U+000B>B', the two letters around a vertical tab
NameVtab == <<"A","","B">>

\* 'A B'
NameSpaced == <<"A"," ","B">>

\* 'x.deä'
NameDomainUmlaut == <<"x",".","d","e","ä">>

\* 'x.com<U+00A0>'
NameDomainNbsp == <<"x",".","c","o","m"," ">>

CandidateNames == { NameAcme, NameAcmeSpaced, NameNA, NameNAPadded,
                    NameKeine, NameSample, NameAbc, NameAbcPadded,
                    NameEmpty, NameBeta, NameDomain, NameUrl,
                    NameSiehe, NameUnbekannt }

\* a row with the name as its Company, and a row without the key Company
RowNamed(name) ==
    [k \in Range(fieldnames) |-> IF k = "Company" THEN name ELSE <<>>]

RowWithoutCompany == [k \in {"Segment"} |-> <<"s">>]

Candidates == {RowNamed(n) : n \in CandidateNames} \cup {RowWithoutCompany}

\* the candidates that share keys with each other or with SeenBefore
CandidatesAlike ==
    {RowNamed(n) : n \in {NameAcme, NameAcmeSpaced, NameAbc, NameAbcPadded,
                          NameNA, NameBeta}} \cup {RowWithoutCompany}

\* the candidates with characters outside ASCII
CandidatesLatin1 ==
    {RowNamed(n) : n \in {NameOel, NameMuellerCaps, NameMueller, NameVtab,
                          NameSpaced, NameDomainUmlaut, NameDomainNbsp}}

\* the lists that dedupe_and_filter is called with
CandidateLists ==
    UNION ( {[1..n -> CandidatesAlike] : n \in 0..MaxRows}
            \cup {[1..n -> Candidates] : n \in 0..MaxRowsAny}
            \cup {[1..n -> CandidatesLatin1] : n \in 0..MaxRowsAny} )

\* the set seen as earlier calls may have left it
SeenBefore == { {}, {<<"a","c","m","e"," ","g","m","b","h">>},
                {<<"a","b","c">>, <<"c","0">>} }

FilterInit ==
    /\ MainStart(SmallTarget, SmallCalls, "idle")
    /\ prs = PrsIdle
    /\ \E rows \in CandidateLists, seen0 \in SeenBefore :
           filt = [rows |-> rows, seen0 |-> seen0, i |-> 0, seen |-> seen0,
                   clean |-> <<>>, acc |-> <<>>, seen_at |-> <<>>]

\* The next candidate is examined.  acc lists the positions of the accepted
\* candidates and seen_at the set seen as each candidate found it.
FilterExamine ==
    /\ filt.i < Len(filt.rows)
    /\ LET k  == filt.i + 1
           st == DedupeStep([seen |-> filt.seen, clean |-> filt.clean],
                            filt.rows[k])
       IN  filt' = [filt EXCEPT
                       !.i = k,
                       !.seen = st.seen,
                       !.clean = st.clean,
                       !.acc = IF Len(st.clean) > Len(filt.clean)
                               THEN Append(filt.acc, k) ELSE filt.acc,
                       !.seen_at = Append(filt.seen_at, filt.seen)]
    /\ UNCHANGED <<loopvars, prs>>

FilterNext == FilterExamine

FilterSpec == FilterInit /\ [][FilterNext]_vars

(***************************************************************************)
(* parse_csv_block on its own: the lines are parsed one by one             *)
(***************************************************************************)
MaxLineLen == 7

\* the characters of the lines: a letter, the two delimiters, the double
\* quote and the space
LineAlphabet == {"a", ",", ";", "\"", " "}

\* two rows that a vertical tab separates
\*     a,b,c,d,e,f<U+000B>g,h,i,j,k,l
TextVtab ==
    <<"a",",","b",",","c",",","d",",","e",",","f","",
      "g",",","h",",","i",",","j",",","k",",","l">>

\* fields padded with U+00A0 and U+001F, a line of U+001F alone between
\* the breaks U+0085 and U+001C, and a semicolon row
\*     <U+00A0>a,b,c,d,e,<U+001F>f<U+0085><U+001F><U+001C>Öl;b;c;d;e;f
TextLatin1 ==
    <<" ","a",",","b",",","c",",","d",",","e",",","","f","",
      "","","Ö","l",";","b",";","c",";","d",";","e",";","f">>

\* every line of at most MaxLineLen characters, the texts of Responses and
\* the texts with whitespace and line breaks outside ASCII
ParseTexts ==
    UNION {[1..n -> LineAlphabet] : n \in 0..MaxLineLen}
        \cup Responses \cup {TextVtab, TextLatin1}

ParseInit ==
    /\ MainStart(SmallTarget, SmallCalls, "idle")
    /\ filt = FiltIdle
    /\ \E t \in ParseTexts :
           prs = [text |-> t, cols |-> expected_cols_default,
                  lines |-> SplitLines(t), i |-> 0, rows |-> <<>>,
                  made |-> <<>>]

\* The next line is parsed.  made lists, line by line, the rows the line
\* appended.
ParseNextLine ==
    /\ prs.i < Len(prs.lines)
    /\ LET new == ParseLine(prs.lines[prs.i + 1], prs.cols)
       IN  prs' = [prs EXCEPT !.i = prs.i + 1,
                              !.rows = prs.rows \o new,
                              !.made = Append(prs.made, new)]
    /\ UNCHANGED <<loopvars, filt>>

ParseNext == ParseNextLine

ParseSpec == ParseInit /\ [][ParseNext]_vars

(***************************************************************************)
(* Properties of dedupe_and_filter                                         *)
(***************************************************************************)
\* the name and the key of the candidate at position k of rows
NameAt(k) == Get(filt.rows[k], "Company")

KeyAt(k) == normalize_name(NameAt(k))

\* the positions of the accepted candidates
Accepted == Range(filt.acc)

\* the set seen as the candidate at position k left it
SeenAfter(k) == IF k < filt.i THEN filt.seen_at[k + 1] ELSE filt.seen

\* What C5 and its amendment share: no candidate is accepted whose key is
\* in seen when it is examined; seen is what earlier calls left in it plus
\* the keys of the candidates accepted so far; of the candidates with one
\* key at most one is accepted and the key is added once; the accepted
\* candidates are returned in input order.
C5_SeenAndOrder ==
    /\ \A a \in Accepted : KeyAt(a) \notin filt.seen_at[a]
    /\ \A k \in 1..filt.i :
           filt.seen_at[k] =
               filt.seen0 \cup {KeyAt(a) : a \in {b \in Accepted : b < k}}
    /\ filt.seen = filt.seen0 \cup {KeyAt(a) : a \in Accepted}
    /\ \A a, b \in Accepted : a # b => KeyAt(a) # KeyAt(b)
    /\ Cardinality(filt.seen) = Cardinality(filt.seen0) + Len(filt.acc)
    /\ Len(filt.clean) = Len(filt.acc)
    /\ \A j \in DOMAIN filt.acc :
           /\ filt.clean[j] = filt.rows[filt.acc[j]]
           /\ j > 1 => filt.acc[j - 1] < filt.acc[j]

\* C5 as claimed: of the candidates of one batch with the same key at most
\* the first occurrence is accepted.
C5_FirstOccurrenceWins ==
    /\ C5_SeenAndOrder
    /\ \A a \in Accepted : \A k \in 1..(a - 1) : KeyAt(k) # KeyAt(a)

\* C5 amended: of the candidates of one batch with the same key at most one
\* is accepted, the first that looks_like_company lets pass; an earlier
\* occurrence was rejected as a non-company and left seen as it was.
C5_FirstPassingOccurrenceWins ==
    /\ C5_SeenAndOrder
    /\ \A a \in Accepted : \A k \in 1..(a - 1) :
           KeyAt(k) = KeyAt(a) =>
               /\ k \notin Accepted
               /\ ~looks_like_company(NameAt(k))
               /\ SeenAfter(k) = filt.seen_at[k]

\* one company three times in one batch: the first occurrence is accepted
C5_Witness ==
    /\ filt.rows = <<RowNamed(NameAcme), RowNamed(NameAcmeSpaced),
                     RowNamed(NameAcme)>>
    /\ filt.seen0 = {}
    /\ filt.i = 3
    /\ filt.acc = <<1>>

\* the literal p stands in s at position i, letter case ignored
HasAt(s, i, p) ==
    i >= 1 /\ i + Len(p) - 1 <= Len(s) /\ Lower(SubSeq(s, i, i + Len(p) - 1)) = p

\* the name contains the domain suffix as a whole word end
HasSuffixWord(s, p) ==
    \E i \in 1..Len(s) :
        /\ HasAt(s, i, p)
        /\ i + Len(p) - 1 = Len(s) \/ ~IsWordChar(s[i + Len(p)])

\* the non-company patterns of C6: the placeholder phrases (siehe, keine,
\* unbekannt, sample at the start, n/a as the whole name), a URL fragment
\* (http), a top-level-domain suffix (.com, .de), or one alphabetic token of
\* at most three letters
NonCompanyPattern(name) ==
    \/ HasAt(name, 1, <<"s","i","e","h","e">>)
    \/ HasAt(name, 1, <<"k","e","i","n","e">>)
    \/ HasAt(name, 1, <<"u","n","b","e","k","a","n","n","t">>)
    \/ HasAt(name, 1, <<"s","a","m","p","l","e">>)
    \/ Lower(name) = <<"n","/","a">>
    \/ \E i \in 1..Len(name) : HasAt(name, i, <<"h","t","t","p">>)
    \/ HasSuffixWord(name, <<".","c","o","m">>)
    \/ HasSuffixWord(name, <<".","d","e">>)
    \/ (IsAlpha(name) /\ Len(name) <= 3)

\* C6: a candidate whose name matches a non-company pattern, the examples
\* N/A, Keine Angabe, sample-co.com and abc among them, is rejected: it is
\* not appended to the output batch and seen is left as it was.
C6_NonCompaniesRejected ==
    /\ \A n \in {NameNA, NameKeine, NameSample, NameAbc} : NonCompanyPattern(n)
    /\ \A k \in 1..filt.i :
           NonCompanyPattern(NameAt(k)) =>
               /\ k \notin Accepted
               /\ SeenAfter(k) = filt.seen_at[k]
               /\ \A j \in DOMAIN filt.clean : filt.clean[j] # filt.rows[k]

\* placeholders around a company: only the company is accepted
C6_Witness ==
    /\ filt.rows = <<RowNamed(NameNA), RowNamed(NameBeta), RowNamed(NameAbc)>>
    /\ filt.i = 3
    /\ filt.acc = <<2>>
    /\ filt.seen = filt.seen0 \cup {<<"b","e","t","a"," ","a","g">>}

(***************************************************************************)
(* Properties of parse_csv_block                                           *)
(***************************************************************************)
\* the number of fields of the line under the quote-aware split
FieldsUnder(line, delim) == Len(QuoteAwareSplit(line, delim))

\* the record of the first six fields of the line under the split
FirstSix(line, delim) ==
    LET fields == QuoteAwareSplit(line, delim)
    IN  [k \in Range(fieldnames) |->
            StripQuotes(Strip(fields[CHOOSE n \in 1..6 : fieldnames[n] = k]))]

\* C7: a line with fewer than six fields under the comma split and under
\* the semicolon split yields no record; a non-blank line with six or more
\* fields under comma or, failing that, under semicolon yields exactly one
\* record, of its first six fields; a blank line yields nothing; the rows
\* returned are the records of the lines, in order.
C7_ParsedLines ==
    /\ \A k \in 1..prs.i :
           LET line   == prs.lines[k]
               blank  == \A c \in DOMAIN line : line[c] \in Whitespace
               commas == FieldsUnder(line, ",")
               semis  == FieldsUnder(line, ";")
           IN  /\ blank => prs.made[k] = <<>>
               /\ (commas < 6 /\ semis < 6) => prs.made[k] = <<>>
               /\ (~blank /\ commas >= 6) =>
                      prs.made[k] = <<FirstSix(line, ",")>>
               /\ (~blank /\ commas < 6 /\ semis >= 6) =>
                      prs.made[k] = <<FirstSix(line, ";")>>
    /\ Len(prs.rows) = Cardinality({k \in 1..prs.i : prs.made[k] # <<>>})
    /\ \A j \in DOMAIN prs.rows : DOMAIN prs.rows[j] = Range(fieldnames)
    /\ prs.i = Len(prs.lines) => prs.rows = parse_csv_block(prs.text, prs.cols)

\* a text with semicolon rows, a blank line, a row of seven fields and a
\* short row has been parsed
C7_Witness ==
    /\ prs.text = TextSemicolon
    /\ prs.i = Len(prs.lines)
    /\ Len(prs.lines) = 5
    /\ Len(prs.rows) = 3
    /\ prs.made[2] = <<>>
    /\ prs.made[5] = <<>>

=============================================================================
